---- MODULE Spec2Model ----
(***************************************************************************)
(* Model of the backend of mvirtai/web_app_react: the settings loader      *)
(* (backend/src/config.py) and the HTTP application (backend/src/main.py). *)
(*                                                                         *)
(* Text is modelled at the granularity the loader looks at it:             *)
(*   - variable names are sequences of one-letter strings, so that case    *)
(*     folding is a computation;                                           *)
(*   - values of integer fields are sequences of characters, parsed digit  *)
(*     by digit;                                                           *)
(*   - values of the list field are sequences of JSON tokens, decoded by   *)
(*     their bracket/comma structure;                                      *)
(*   - values of string fields are sequences of characters, which str      *)
(*     validation keeps as they are; an origin is one string.              *)
(***************************************************************************)
EXTENDS Integers, Sequences, FiniteSets, TLC

VARIABLES
    environ,    \* os.environ: partial function, variable name -> raw value
    envFile,    \* contents of ".env": partial function, name -> raw value
    pc,         \* "start" | "failed" | "configured" | "serving"
    settings,   \* src.config.settings once constructed (<<>> before)
    failure,    \* the exception that ended the import, if any
    app,        \* src.main.app once built
    last        \* <<>> or <<[req |-> .., resp |-> ..]>>: the last exchange

vars == <<environ, envFile, pc, settings, failure, app, last>>

----------------------------------------------------------------------------
(* Bounds of the model *)

MaxEnvVars == 2

----------------------------------------------------------------------------
(* Settings: the declared fields, config.py lines 10-23 *)

Fields ==
    {"database_url", "api_host", "api_port", "cors_origins", "secret_key",
     "algorithm", "access_token_expire_minutes"}

StrFields == {"database_url", "api_host", "secret_key", "algorithm"}

IntFields == {"api_port", "access_token_expire_minutes"}

ListFields == {"cors_origins"}

\* Variant: secret_key declared with an (empty) default.
DefaultsWithSecretKey ==
    [database_url |-> <<"f","i","l","e",":",".","/","d","e","v",".","d","b">>,
     api_host |-> <<"0",".","0",".","0",".","0">>,
     api_port |-> 8000,
     cors_origins |-> <<"http://localhost:3000">>,
     secret_key |-> <<>>,
     algorithm |-> <<"H","S","2","5","6">>,
     access_token_expire_minutes |-> 30]

\* The fields that carry a default, with that default.
Defaults ==
    [database_url |-> <<"f","i","l","e",":",".","/","d","e","v",".","d","b">>,
     api_host |-> <<"0",".","0",".","0",".","0">>,
     api_port |-> 8000,
     cors_origins |-> <<"http://localhost:3000">>,
     algorithm |-> <<"H","S","2","5","6">>,
     access_token_expire_minutes |-> 30]

\* A field's name, letter by letter: the key the sources are searched for.
Chars(f) ==
    CASE f = "database_url" -> <<"d","a","t","a","b","a","s","e","_","u","r","l">>
      [] f = "api_host" -> <<"a","p","i","_","h","o","s","t">>
      [] f = "api_port" -> <<"a","p","i","_","p","o","r","t">>
      [] f = "cors_origins" -> <<"c","o","r","s","_","o","r","i","g","i","n","s">>
      [] f = "secret_key" -> <<"s","e","c","r","e","t","_","k","e","y">>
      [] f = "algorithm" -> <<"a","l","g","o","r","i","t","h","m">>
      [] f = "access_token_expire_minutes" ->
            <<"a","c","c","e","s","s","_","t","o","k","e","n","_",
              "e","x","p","i","r","e","_","m","i","n","u","t","e","s">>

----------------------------------------------------------------------------
(* Letter case *)

LowerLetters ==
    <<"a","b","c","d","e","f","g","h","i","j","k","l","m",
      "n","o","p","q","r","s","t","u","v","w","x","y","z">>

UpperLetters ==
    <<"A","B","C","D","E","F","G","H","I","J","K","L","M",
      "N","O","P","Q","R","S","T","U","V","W","X","Y","Z">>

LowerOf == [u \in {UpperLetters[i] : i \in 1..26} |->
               LowerLetters[CHOOSE i \in 1..26 : UpperLetters[i] = u]]

UpperOf == [l \in {LowerLetters[i] : i \in 1..26} |->
               UpperLetters[CHOOSE i \in 1..26 : LowerLetters[i] = l]]

LowerChar(c) == IF c \in DOMAIN LowerOf THEN LowerOf[c] ELSE c

UpperChar(c) == IF c \in DOMAIN UpperOf THEN UpperOf[c] ELSE c

\* Variant: case_sensitive=True, names are compared as spelled.
KeepCase(name) == name

\* str.lower()
ToLower(name) == [i \in DOMAIN name |-> LowerChar(name[i])]

ToUpper(name) == [i \in DOMAIN name |-> UpperChar(name[i])]

\* Secret_Key style: a capital at the start and after each underscore.
ToTitle(name) ==
    [i \in DOMAIN name |->
        IF i = 1 \/ name[i - 1] = "_" THEN UpperChar(name[i]) ELSE name[i]]

Casings == {"lower", "UPPER", "Title"}

Spell(f, c) ==
    CASE c = "lower" -> Chars(f)
      [] c = "UPPER" -> ToUpper(Chars(f))
      [] c = "Title" -> ToTitle(Chars(f))

----------------------------------------------------------------------------
(* Raw values the sources may hold, per field *)

RawValues(f) ==
    CASE f = "secret_key" -> {<<>>, <<"s","3","c","r","3","t">>}
      [] f = "database_url" -> {<<"p","g",":","/","/","d","b">>}
      [] f = "api_host" -> {<<"1","2","7",".","0",".","0",".","1">>}
      [] f = "algorithm" -> {<<"R","S","2","5","6">>}
      [] f = "api_port" ->
            {<<"9","0","0","0">>, <<"-","1">>, <<"7","0","0","0","0">>, <<"a","b","c">>}
      [] f = "access_token_expire_minutes" -> {<<"6","0">>}
      [] f = "cors_origins" ->
            {<<"[", "]">>,
             <<"[", "\"http://a.test\"", ",", "\"*\"", "]">>,
             <<"[", "1", "]">>,
             <<"\"http://a.test\"">>,
             <<"http://a.test">>}

----------------------------------------------------------------------------
(* Parsing *)

Digits == <<"0","1","2","3","4","5","6","7","8","9">>

IsDigit(c) == \E i \in 1..10 : Digits[i] = c

DigitValue(c) == (CHOOSE i \in 1..10 : Digits[i] = c) - 1

Unsigned(raw) == IF raw # <<>> /\ Head(raw) \in {"-", "+"} THEN Tail(raw) ELSE raw

\* int validation of a string: an optional sign and at least one digit.
IsInt(raw) == Unsigned(raw) # <<>> /\ \A i \in DOMAIN Unsigned(raw) : IsDigit(Unsigned(raw)[i])

RECURSIVE Magnitude(_)
Magnitude(ds) ==
    IF ds = <<>> THEN 0
    ELSE 10 * Magnitude(SubSeq(ds, 1, Len(ds) - 1)) + DigitValue(ds[Len(ds)])

IntOf(raw) ==
    IF raw # <<>> /\ Head(raw) = "-" THEN 0 - Magnitude(Unsigned(raw))
    ELSE Magnitude(Unsigned(raw))

\* JSON tokens: string literals, number literals, and the punctuation.
StringLiterals ==
    ("\"http://a.test\"" :> "http://a.test") @@
    ("\"http://localhost:3000\"" :> "http://localhost:3000") @@
    ("\"*\"" :> "*")

NumberLiterals == {"1"}

IsScalarToken(t) == t \in DOMAIN StringLiterals \/ t \in NumberLiterals

Inner(toks) == SubSeq(toks, 2, Len(toks) - 1)

IsJsonList(toks) ==
    /\ Len(toks) >= 2
    /\ toks[1] = "[" /\ toks[Len(toks)] = "]"
    /\ \/ Inner(toks) = <<>>
       \/ /\ Len(Inner(toks)) % 2 = 1
          /\ \A i \in DOMAIN Inner(toks) :
                IF i % 2 = 1 THEN IsScalarToken(Inner(toks)[i])
                ELSE Inner(toks)[i] = ","

IsJsonScalar(toks) == Len(toks) = 1 /\ IsScalarToken(toks[1])

\* json.loads succeeds
IsJson(toks) == IsJsonList(toks) \/ IsJsonScalar(toks)

\* The element tokens of a JSON list, in order.
Items(toks) == [j \in 1..((Len(Inner(toks)) + 1) \div 2) |-> Inner(toks)[2 * j - 1]]

(* The settings sources: pydantic-settings behind Settings(), config.py 3-25 *)

\* The spellings in a source that fold to the same key, one chosen per key:
\* the source's mapping keeps a single entry per folded key.
Picks(src) ==
    {p \in [{ToLower(n) : n \in DOMAIN src} -> DOMAIN src] :
        \A k \in DOMAIN p : ToLower(p[k]) = k}

\* The source with its keys folded (case_sensitive=False).
Folded(src, p) == [k \in DOMAIN p |-> src[p[k]]]

Supplies(folded, f) == Chars(f) \in DOMAIN folded

RawOf(folded, f) == folded[Chars(f)]

\* A list field's value is decoded as JSON by the source that supplies it.
Undecodable(folded) == {f \in ListFields : Supplies(folded, f) /\ ~IsJson(RawOf(folded, f))}

\* Variant: the ".env" file takes precedence over the environment.
OriginFileFirst(envd, filed, f) ==
    IF Chars(f) \in DOMAIN filed THEN "file"
    ELSE IF Chars(f) \in DOMAIN envd THEN "env"
    ELSE IF f \in DOMAIN Defaults THEN "default"
    ELSE "none"

\* Where a field's value comes from: environment over file over default.
Origin(envd, filed, f) ==
    IF Supplies(envd, f) THEN "env"
    ELSE IF Supplies(filed, f) THEN "file"
    ELSE IF f \in DOMAIN Defaults THEN "default"
    ELSE "none"

Supplied(envd, filed, f) ==
    IF Origin(envd, filed, f) = "env" THEN RawOf(envd, f) ELSE RawOf(filed, f)

\* Validation of one field against its declared type: "ok" or the error type.
FieldError(envd, filed, f) ==
    CASE Origin(envd, filed, f) = "none" -> "missing"
      [] Origin(envd, filed, f) = "default" -> "ok"
      [] OTHER ->
            LET raw == Supplied(envd, filed, f) IN
            CASE f \in StrFields -> "ok"
              [] f \in IntFields -> IF IsInt(raw) THEN "ok" ELSE "int_parsing"
              [] f \in ListFields ->
                    IF ~IsJsonList(raw) THEN "list_type"
                    ELSE IF \A j \in DOMAIN Items(raw) : Items(raw)[j] \in DOMAIN StringLiterals
                    THEN "ok"
                    ELSE "string_type"

FieldValue(envd, filed, f) ==
    IF Origin(envd, filed, f) = "default" THEN Defaults[f]
    ELSE LET raw == Supplied(envd, filed, f) IN
         CASE f \in StrFields -> raw
           [] f \in IntFields -> IntOf(raw)
           [] f \in ListFields -> [j \in DOMAIN Items(raw) |-> StringLiterals[Items(raw)[j]]]

NoFailure == [exc |-> "none", errors |-> {}]

\* Settings(): the outcome of construction from the two folded sources.
BuildSettings(envd, filed) ==
    IF Undecodable(envd) # {}
    THEN [exc |-> "SettingsError",
          errors |-> {<<f, "json_invalid">> : f \in Undecodable(envd)},
          value |-> <<>>]
    ELSE IF Undecodable(filed) # {}
    THEN [exc |-> "SettingsError",
          errors |-> {<<f, "json_invalid">> : f \in Undecodable(filed)},
          value |-> <<>>]
    ELSE LET bad == {f \in Fields : FieldError(envd, filed, f) # "ok"} IN
         IF bad # {}
         THEN [exc |-> "ValidationError",
               errors |-> {<<f, FieldError(envd, filed, f)>> : f \in bad},
               value |-> <<>>]
         ELSE [exc |-> "none",
               errors |-> {},
               value |-> [f \in Fields |-> FieldValue(envd, filed, f)]]

----------------------------------------------------------------------------
(* The HTTP application, main.py *)

\* Variant: the root route also registered for POST.
UserRoutesWithPost ==
    {[path |-> "/", methods |-> {"GET", "POST"}, endpoint |-> "read_root"],
     [path |-> "/health", methods |-> {"GET"}, endpoint |-> "read_health_status"]}

\* The routes the two decorators register.
UserRoutes ==
    {[path |-> "/", methods |-> {"GET"}, endpoint |-> "read_root"],
     [path |-> "/health", methods |-> {"GET"}, endpoint |-> "read_health_status"]}

\* The routes FastAPI(...) sets up itself when its documentation URLs are
\* left at their defaults.
DocRoutes ==
    {[path |-> "/openapi.json", methods |-> {"GET", "HEAD"}, endpoint |-> "openapi"],
     [path |-> "/docs", methods |-> {"GET", "HEAD"}, endpoint |-> "swagger_ui_html"],
     [path |-> "/docs/oauth2-redirect", methods |-> {"GET", "HEAD"},
      endpoint |-> "swagger_ui_redirect"],
     [path |-> "/redoc", methods |-> {"GET", "HEAD"}, endpoint |-> "redoc_html"]}

NoApp ==
    [built |-> FALSE, routes |-> {}, allow_origins |-> <<>>,
     allow_credentials |-> FALSE, allow_methods |-> <<>>, allow_headers |-> <<>>]

\* app = FastAPI(...); app.add_middleware(CORSMiddleware, ...); the two routes.
NewApp(s) ==
    [built |-> TRUE, routes |-> UserRoutes \cup DocRoutes,
     allow_origins |-> s["cors_origins"],
     allow_credentials |-> TRUE, allow_methods |-> <<"*">>, allow_headers |-> <<"*">>]

\* The body and content type an endpoint returns; none reads the request.
read_root == [ctype |-> "application/json", body |-> {<<"message", "Hello World!">>}]

\* Variant: the health endpoint reporting another status word.
read_health_status_ok == [ctype |-> "application/json", body |-> {<<"status", "ok">>}]

read_health_status == [ctype |-> "application/json", body |-> {<<"status", "healthy">>}]

EndpointResult(name) ==
    CASE name = "read_root" -> read_root
      [] name = "read_health_status" -> read_health_status
      [] name = "openapi" ->
            [ctype |-> "application/json", body |-> {<<"title", "CMS API">>, <<"version", "0.1.0">>}]
      [] OTHER -> [ctype |-> "text/html", body |-> {<<"page", name>>}]

\* The path with its trailing slash removed, for the paths the model sends.
Unslashed(path) == IF path = "/health/" THEN "/health" ELSE path

\* The router: endpoint, 405, slash redirect, or 404.
Dispatch(a, req) ==
    LET onPath == {r \in a.routes : r.path = req.path}
        hits == {r \in onPath : req.method \in r.methods}
    IN  IF hits # {}
        THEN LET r == CHOOSE r \in hits : TRUE IN
             [status |-> 200, by |-> r.endpoint,
              ctype |-> EndpointResult(r.endpoint).ctype,
              body |-> EndpointResult(r.endpoint).body]
        ELSE IF onPath # {}
        THEN [status |-> 405, by |-> "router", ctype |-> "application/json",
              body |-> {<<"detail", "Method Not Allowed">>}]
        ELSE IF Unslashed(req.path) # req.path
                /\ \E r \in a.routes : r.path = Unslashed(req.path)
        THEN [status |-> 307, by |-> "router", ctype |-> "", body |-> {}]
        ELSE [status |-> 404, by |-> "router", ctype |-> "application/json",
              body |-> {<<"detail", "Not Found">>}]

Elems(seq) == {seq[i] : i \in DOMAIN seq}

\* Variant: the middleware consulting the settings on every request.
AllowOriginsFromSettings(a, s) == s["cors_origins"]

\* The origins the middleware was given when it was added.
AllowOrigins(a, s) == a.allow_origins

AllowAll(a, s) == "*" \in Elems(AllowOrigins(a, s))

OriginAllowed(a, s, o) == AllowAll(a, s) \/ o \in Elems(AllowOrigins(a, s))

\* The cross-origin middleware around the router. origin = "" stands for a
\* request without an Origin header; acrm for the presence of an
\* Access-Control-Request-Method header naming a standard method.
Respond(a, s, req) ==
    IF req.origin = ""
    THEN Dispatch(a, req) @@ [acao |-> "", acac |-> FALSE]
    ELSE IF req.method = "OPTIONS" /\ req.acrm
    THEN IF OriginAllowed(a, s, req.origin)
         THEN [status |-> 200, by |-> "cors", ctype |-> "text/plain",
               body |-> {<<"text", "OK">>},
               acao |-> req.origin, acac |-> a.allow_credentials]
         ELSE [status |-> 400, by |-> "cors", ctype |-> "text/plain",
               body |-> {<<"text", "Disallowed CORS origin">>},
               acao |-> "", acac |-> a.allow_credentials]
    ELSE Dispatch(a, req) @@
         [acao |-> IF AllowAll(a, s) THEN "*"
                   ELSE IF OriginAllowed(a, s, req.origin) THEN req.origin
                   ELSE "",
          acac |-> a.allow_credentials]

(* Inputs *)

Bindings(fields, casings) ==
    UNION {{<<Spell(f, c), v>> : c \in casings, v \in RawValues(f)} : f \in fields}

\* What the process is started with in the wild: any variable, any spelling.
AnyBindings == Bindings(Fields, Casings)

\* A deployment that sets the two variables the service reads at run time.
DeployBindings ==
    {<<Spell("secret_key", "UPPER"), <<"s","3","c","r","3","t">>>>,
     <<Spell("cors_origins", "UPPER"), <<"[", "\"http://a.test\"", "]">>>>,
     <<Spell("cors_origins", "UPPER"), <<"[", "\"*\"", "]">>>>,
     <<Spell("cors_origins", "UPPER"), <<"[", "]">>>>}

\* The ".env" files considered: none (or an empty one), or one assignment
\* to the required field or to the integer field, or a list that is not JSON.
EnvFiles ==
    {<<>>, (Spell("cors_origins", "UPPER") :> <<"http://a.test">>)}
    \cup {(b[1] :> b[2]) : b \in Bindings({"secret_key", "api_port"}, {"UPPER"})}

Request(m, p, o, a, q, b) ==
    [method |-> m, path |-> p, origin |-> o, acrm |-> a, query |-> q, body |-> b]

\* The requests the tests send (test_main.py): plain GETs of the two routes.
TestRequests ==
    {Request("GET", p, "", FALSE, "", "") : p \in {"/", "/health"}}

Methods == {"GET", "HEAD", "POST", "OPTIONS"}

Paths == {"/", "/health", "/health/", "/docs", "/missing"}

Origins == {"", "http://a.test", "http://evil.test"}

AnyRequests ==
    {Request(m, p, o, a, q, b) :
        m \in Methods, p \in Paths, o \in Origins, a \in BOOLEAN,
        q \in {"", "q=1"}, b \in {"", "{}"}}

\* Values a caller may assign to a field of the settings object.
Assignable == {<<"cors_origins", <<"http://evil.test">>>>}

----------------------------------------------------------------------------
(* Actions *)

Constructed == pc \in {"configured", "serving"}

\* os.environ.setdefault / os.environ[key] = value before src.config is
\* imported.
PrepareEnv(bindings) ==
    /\ pc = "start"
    /\ Cardinality(DOMAIN environ) < MaxEnvVars
    /\ \E b \in bindings :
          /\ b[1] \notin DOMAIN environ
          /\ environ' = environ @@ (b[1] :> b[2])
    /\ UNCHANGED <<envFile, pc, settings, failure, app, last>>

\* settings = Settings(), run by the import of src.config.
LoadSettings ==
    /\ pc = "start"
    /\ \E pe \in Picks(environ), pf \in Picks(envFile) :
          LET r == BuildSettings(Folded(environ, pe), Folded(envFile, pf)) IN
          IF r.exc = "none"
          THEN /\ pc' = "configured"
               /\ settings' = r.value
               /\ UNCHANGED failure
          ELSE /\ pc' = "failed"
               /\ failure' = [exc |-> r.exc, errors |-> r.errors]
               /\ UNCHANGED settings
    /\ UNCHANGED <<environ, envFile, app, last>>

\* The rest of the import of src.main, after "from src.config import settings".
BuildApp ==
    /\ pc = "configured"
    /\ pc' = "serving"
    /\ app' = NewApp(settings)
    /\ UNCHANGED <<environ, envFile, settings, failure, last>>

\* One request through the middleware and the router.
HandleRequest(requests) ==
    /\ pc = "serving"
    /\ \E req \in requests :
          last' = <<[req |-> req, resp |-> Respond(app, settings, req)]>>
    /\ UNCHANGED <<environ, envFile, pc, settings, failure, app>>

\* os.environ[key] = value once the settings exist (test_config.py does so).
ChangeEnv(bindings) ==
    /\ pc # "start"
    /\ \E b \in bindings :
          /\ b[1] \in DOMAIN environ \/ Cardinality(DOMAIN environ) < MaxEnvVars
          /\ environ' = (b[1] :> b[2]) @@ environ
          /\ environ' # environ
    /\ UNCHANGED <<envFile, pc, settings, failure, app, last>>

\* settings.<field> = value: the model is not frozen and assignments are
\* not validated.
SetField ==
    /\ Constructed
    /\ \E fv \in Assignable :
          /\ settings[fv[1]] # fv[2]
          /\ settings' = [settings EXCEPT ![fv[1]] = fv[2]]
    /\ UNCHANGED <<environ, envFile, pc, failure, app, last>>

----------------------------------------------------------------------------
(* Specifications *)

Blank ==
    /\ environ = <<>>
    /\ pc = "start"
    /\ settings = <<>>
    /\ failure = NoFailure
    /\ app = NoApp
    /\ last = <<>>

\* Start-up: any environment, any ".env" file, then the tests' requests.
Init == Blank /\ envFile \in EnvFiles

Next ==
    \/ PrepareEnv(AnyBindings)
    \/ LoadSettings
    \/ BuildApp
    \/ HandleRequest(TestRequests)

Spec == Init /\ [][Next]_vars

\* Run time: a deployment's environment, then any request, with the
\* environment and the settings object open to change while serving.
InitRun == Blank /\ envFile = <<>>

NextRun ==
    \/ PrepareEnv(DeployBindings)
    \/ LoadSettings
    \/ BuildApp
    \/ HandleRequest(AnyRequests)
    \/ ChangeEnv(DeployBindings)
    \/ SetField

SpecRun == InitRun /\ [][NextRun]_vars

(* Properties *)

Spellings == [f \in Fields |-> {Spell(f, c) : c \in Casings}]

\* The field a spelled variable name stands for.
FieldSpelled(n) == CHOOSE f \in Fields : n \in Spellings[f]

NamesOf(src, f) == {n \in DOMAIN src : FieldSpelled(n) = f}

InSource(src, f) == NamesOf(src, f) # {}

SomeSourceSupplies(f) == InSource(environ, f) \/ InSource(envFile, f)

\* A source holds a list value that json.loads rejects.
UndecodableSupplied ==
    \E f \in ListFields :
        \/ \E n \in NamesOf(environ, f) : ~IsJson(environ[n])
        \/ \E n \in NamesOf(envFile, f) : ~IsJson(envFile[n])

NamesSecretKeyMissing ==
    failure.exc = "ValidationError" /\ <<"secret_key", "missing">> \in failure.errors

Converted(f, raw) ==
    CASE f \in StrFields -> raw
      [] f \in IntFields -> IntOf(raw)
      [] f \in ListFields -> [j \in DOMAIN Items(raw) |-> StringLiterals[Items(raw)[j]]]

\* The raw value is one the field's type accepts.
Acceptable(f, raw) ==
    CASE f \in StrFields -> TRUE
      [] f \in IntFields -> IsInt(raw)
      [] f \in ListFields ->
            IsJsonList(raw) /\ \A j \in DOMAIN Items(raw) : Items(raw)[j] \in DOMAIN StringLiterals

FromSource(src, f) ==
    \E n \in NamesOf(src, f) : Acceptable(f, src[n]) /\ settings[f] = Converted(f, src[n])

\* C3: after a successful construction every field holds the value of the
\* highest-priority source supplying it (environment, then ".env" file, then
\* default), and with only secret_key supplied the other fields hold the
\* documented defaults.
C3_HighestPrioritySourceWins ==
    Constructed =>
        /\ \A f \in Fields :
              IF InSource(environ, f) THEN FromSource(environ, f)
              ELSE IF InSource(envFile, f) THEN FromSource(envFile, f)
              ELSE settings[f] =
                     CASE f = "database_url" ->
                            <<"f","i","l","e",":",".","/","d","e","v",".","d","b">>
                       [] f = "api_host" -> <<"0",".","0",".","0",".","0">>
                       [] f = "api_port" -> 8000
                       [] f = "cors_origins" -> <<"http://localhost:3000">>
                       [] f = "algorithm" -> <<"H","S","2","5","6">>
                       [] f = "access_token_expire_minutes" -> 30
        /\ (\A f \in Fields \ {"secret_key"} : ~SomeSourceSupplies(f)) =>
              /\ settings["api_port"] = 8000
              /\ settings["cors_origins"] = <<"http://localhost:3000">>
              /\ settings["access_token_expire_minutes"] = 30
              /\ settings["api_host"] = <<"0",".","0",".","0",".","0">>
              /\ settings["database_url"] =
                    <<"f","i","l","e",":",".","/","d","e","v",".","d","b">>
              /\ settings["algorithm"] = <<"H","S","2","5","6">>

C3_Witness ==
    /\ Constructed
    /\ \E n \in DOMAIN environ, m \in DOMAIN envFile :
          /\ FieldSpelled(n) = "api_port" /\ FieldSpelled(m) = "api_port"
          /\ environ[n] # envFile[m]
          /\ settings["api_port"] = IntOf(environ[n])

\* C5: after a successful construction secret_key is a non-empty string.
C5_SecretKeyNonEmpty == Constructed => settings["secret_key"] # <<>>

\* C6: after a successful construction cors_origins is a non-empty sequence
\* of strings.
C6_CorsOriginsNonEmpty ==
    Constructed =>
        /\ Len(settings["cors_origins"]) > 0
        /\ \A i \in DOMAIN settings["cors_origins"] : settings["cors_origins"][i] \in STRING

\* C7: after a successful construction 0 < api_port < 65536.
C7_ApiPortInRange ==
    Constructed => (0 < settings["api_port"] /\ settings["api_port"] < 65536)

\* The environment with every variable respelled in one casing.
Respelled(env, c) ==
    [n \in {Spell(FieldSpelled(m), c) : m \in DOMAIN env} |->
        env[CHOOSE m \in DOMAIN env : Spell(FieldSpelled(m), c) = n]]

OneSpellingPerField(env) ==
    \A n, m \in DOMAIN env : FieldSpelled(n) = FieldSpelled(m) => n = m

OnlyPick(src) == CHOOSE p \in Picks(src) : TRUE

\* C8: the outcome of construction does not depend on the letter case the
\* environment variables are spelled in, and secret_key supplied under any
\* spelling is never reported missing.
C8_SpellingIrrelevant ==
    (pc # "start" /\ OneSpellingPerField(environ)) =>
        /\ \A c \in Casings :
              LET env == Respelled(environ, c)
                  r == BuildSettings(Folded(env, OnlyPick(env)),
                                     Folded(envFile, OnlyPick(envFile)))
              IN  /\ (pc = "failed") = (r.exc # "none")
                  /\ r.exc = "none" => settings = r.value
                  /\ r.exc # "none" => failure = [exc |-> r.exc, errors |-> r.errors]
        /\ InSource(environ, "secret_key") => <<"secret_key", "missing">> \notin failure.errors

C8_Witness ==
    /\ Constructed
    /\ Spell("secret_key", "Title") \in DOMAIN environ
    /\ Spell("api_port", "lower") \in DOMAIN environ
    /\ ~InSource(envFile, "secret_key")

Exchanged == last # <<>>

Req == last[1].req

Resp == last[1].resp

\* C2: every GET of / is answered 200 with {"message": "Hello World!"} and
\* every GET of /health is answered 200 with {"status": "healthy"}, whatever
\* the headers, query string, body, settings and earlier requests.
C2_RootAndHealthAnswered ==
    (Exchanged /\ Req.method = "GET") =>
        /\ Req.path = "/" =>
              (Resp.status = 200 /\ Resp.body = {<<"message", "Hello World!">>})
        /\ Req.path = "/health" =>
              (Resp.status = 200 /\ Resp.body = {<<"status", "healthy">>})

C2_Witness ==
    /\ Exchanged
    /\ Req.method = "GET" /\ Req.path = "/health"
    /\ Req.origin = "http://evil.test" /\ Req.acrm
    /\ Req.query # "" /\ Req.body # ""
    /\ settings["cors_origins"] # app.allow_origins

\* The cross-origin headers a response must carry under the origins given.
PolicyApplied(origins, req, resp) ==
    IF req.origin = ""
    THEN resp.acao = "" /\ ~resp.acac
    ELSE /\ resp.acac
         /\ resp.acao # "" <=> ("*" \in Elems(origins) \/ req.origin \in Elems(origins))
         /\ resp.acao \in {"", "*", req.origin}

\* C4: the cross-origin policy is fixed when the application is built from
\* settings.cors_origins (credentials allowed, all methods, all headers), is
\* never changed afterwards, and every response on every route follows it.
C4_CorsPolicyFixedAtBuild ==
    [][/\ (pc = "configured" /\ pc' = "serving") =>
              /\ app'.allow_origins = settings["cors_origins"]
              /\ app'.allow_credentials
              /\ app'.allow_methods = <<"*">>
              /\ app'.allow_headers = <<"*">>
       /\ pc = "serving" => app' = app
       /\ (pc = "serving" /\ last' # last) =>
              PolicyApplied(app.allow_origins, last'[1].req, last'[1].resp)]_vars

C4_Witness ==
    /\ Exchanged
    /\ settings["cors_origins"] = <<"http://evil.test">>
    /\ Req.origin = "http://evil.test"
    /\ Resp.acao = ""
    /\ Spell("cors_origins", "UPPER") \in DOMAIN environ
    /\ app.allow_origins # <<"http://evil.test">>

ByEndpoint == Exchanged /\ Resp.status = 200 /\ Resp.by \notin {"cors", "router"}

\* C9 (as stated): only GET / and GET /health are answered by a handler
\* with a success response.
C9_OnlyTwoRoutes ==
    ByEndpoint => (Req.method = "GET" /\ Req.path \in {"/", "/health"})

\* C9 (amended): a handler answers with success only GET on / and /health
\* and GET or HEAD on the framework's documentation routes (/openapi.json,
\* /docs, /docs/oauth2-redirect, /redoc); the answer to a request does not
\* depend on its body or its query string.
C9_RoutesAndDocumentation ==
    /\ ByEndpoint =>
          \/ Req.method = "GET" /\ Req.path \in {"/", "/health"}
          \/ /\ Req.method \in {"GET", "HEAD"}
             /\ Req.path \in {"/openapi.json", "/docs", "/docs/oauth2-redirect", "/redoc"}
    /\ pc = "serving" =>
          /\ {r \in app.routes : r.path \in {"/", "/health"}} = {r \in app.routes : r.methods = {"GET"}}
          /\ {r.path : r \in app.routes} =
                {"/", "/health", "/openapi.json", "/docs", "/docs/oauth2-redirect", "/redoc"}
    /\ Exchanged =>
          Resp = Respond(app, settings, [Req EXCEPT !.query = "", !.body = ""])

C9_Witness ==
    /\ ByEndpoint
    /\ Req.method = "HEAD" /\ Req.path = "/docs"
    /\ Req.query # "" /\ Req.body # ""

\* C10: once constructed, no field of the settings object ever changes.
C10_SettingsNeverChange == [][Constructed => settings' = settings]_vars

----------------------------------------------------------------------------

====
